---- MODULE Spec2Model ----
(***************************************************************************)
(* A model of the onyx-ssi-sdk fork's credential pipeline:                 *)
(*   - RevocationList (StatusList2021 bitmap): getBitArrayValues,          *)
(*     getCredentialStatus, revokeCredential, stringify, parse;            *)
(*   - revokeCredentialSL21: the issuer-side revoke flow (GET, bit set,    *)
(*     POST) and its promise chain;                                        *)
(*   - createDisclosures and its helpers (selective disclosure), the       *)
(*     disclosure codec (encodeDisclosure, parseDisclosure,                *)
(*     ianaToCryptoAlg, hashDisclosure) and discloseClaims;                *)
(*   - presentations of SD-JWT credentials and their verification.         *)
(*                                                                         *)
(* Text is a sequence of character codes (ASCII / Latin-1), a byte buffer  *)
(* a sequence of numbers 0..255, a 64-bit word the set of its set bit      *)
(* positions (0 = least significant), so that no value leaves TLC's        *)
(* integer range.  A sequence built by a function constructor is followed  *)
(* by \o <<>>, which leaves it the same sequence and has TLC hold it as    *)
(* one instead of evaluating the constructor again at each read.           *)
(***************************************************************************)
EXTENDS Integers, Sequences, FiniteSets, TLC

---------------------------------------------------------------------------
(* Bounds of the model.                                                    *)

\* The most bits a list of the RevocationList specification has set.
MaxRevoked == 3

\* The number of revoke flows (calls of revokeCredentialSL21).
NumFlows == 2

\* The most claims a call of createDisclosures hides.
MaxClaims == 2

\* The number of values crypto.randomBytes draws a salt from.
NumSalts == 2

\* The most disclosures of an SD-JWT handed to discloseClaims.
MaxDisclosures == 2

\* The most credentials of one presentation.
MaxCredentials == 2

---------------------------------------------------------------------------
(* Bytes, base64.                                                          *)

\* The number whose binary digits are the bit positions S (a subset of 0..7).
ByteVal(S) ==
    (IF 0 \in S THEN 1 ELSE 0) + (IF 1 \in S THEN 2 ELSE 0) +
    (IF 2 \in S THEN 4 ELSE 0) + (IF 3 \in S THEN 8 ELSE 0) +
    (IF 4 \in S THEN 16 ELSE 0) + (IF 5 \in S THEN 32 ELSE 0) +
    (IF 6 \in S THEN 64 ELSE 0) + (IF 7 \in S THEN 128 ELSE 0)

\* Bit b (0 = least significant) of a byte.
ByteBit(byte, b) == (byte \div (2 ^ b)) % 2

\* Bit m of a byte buffer read most significant bit first; 0 past its end.
StreamBit(bytes, m) ==
    IF m >= 8 * Len(bytes) THEN 0
    ELSE ByteBit(bytes[(m \div 8) + 1], 7 - (m % 8))

\* The j-th (from 0) group of six bits of a byte buffer.
Sextet(bytes, j) ==
    32 * StreamBit(bytes, 6 * j) + 16 * StreamBit(bytes, 6 * j + 1) +
    8 * StreamBit(bytes, 6 * j + 2) + 4 * StreamBit(bytes, 6 * j + 3) +
    2 * StreamBit(bytes, 6 * j + 4) + StreamBit(bytes, 6 * j + 5)

\* The character of a six-bit value in the base64 (or base64url) alphabet.
B64Char(six, url) ==
    IF six < 26 THEN 65 + six
    ELSE IF six < 52 THEN 97 + (six - 26)
    ELSE IF six < 62 THEN 48 + (six - 52)
    ELSE IF six = 62 THEN (IF url THEN 45 ELSE 43)
    ELSE (IF url THEN 95 ELSE 47)

\* The six-bit value of a character of either alphabet, -1 for any other.
B64Val(c) ==
    IF c >= 65 /\ c <= 90 THEN c - 65
    ELSE IF c >= 97 /\ c <= 122 THEN c - 97 + 26
    ELSE IF c >= 48 /\ c <= 57 THEN c - 48 + 52
    ELSE IF c = 43 \/ c = 45 THEN 62
    ELSE IF c = 47 \/ c = 95 THEN 63
    ELSE -1

\* btoa (url = FALSE, padded with '=') and jose.base64url.encode (url = TRUE,
\* unpadded) of a byte buffer.
Base64Encode(bytes, url) ==
    LET n == Len(bytes)
        m == (4 * n + 2) \div 3
        total == IF url THEN m ELSE 4 * ((n + 2) \div 3)
    IN  [k \in 1..total |->
            IF k <= m THEN B64Char(Sextet(bytes, k - 1), url) ELSE 61] \o <<>>

IsB64Char(c) == B64Val(c) >= 0

\* The text up to its first '='.
UpToPad(text) ==
    LET pads == {k \in 1..Len(text) : text[k] = 61}
    IN  IF pads = {} THEN text
        ELSE SubSeq(text, 1, (CHOOSE k \in pads : \A j \in pads : k <= j) - 1)

\* Buffer.from(text, "base64"): characters outside the alphabet are skipped,
\* both alphabets are read, the text ends at padding; never throws.
Base64Decode(text) ==
    LET cs == SelectSeq(UpToPad(text), IsB64Char)
        n == (6 * Len(cs)) \div 8
        bit(m) == (B64Val(cs[(m \div 6) + 1]) \div (2 ^ (5 - (m % 6)))) % 2
    IN  [k \in 1..n |->
            128 * bit(8 * (k - 1)) + 64 * bit(8 * (k - 1) + 1) +
            32 * bit(8 * (k - 1) + 2) + 16 * bit(8 * (k - 1) + 3) +
            8 * bit(8 * (k - 1) + 4) + 4 * bit(8 * (k - 1) + 5) +
            2 * bit(8 * (k - 1) + 6) + bit(8 * (k - 1) + 7)] \o <<>>

---------------------------------------------------------------------------
(* pako.gzip / pako.ungzip.  pako is a library outside the repository; the *)
(* code relies on it being a lossless byte codec whose decoder rejects     *)
(* input that does not start with the gzip magic bytes 1f 8b.  It is       *)
(* modelled by such a codec: the magic bytes, then one (value, length      *)
(* high byte, length low byte) triple per maximal run of equal bytes (a    *)
(* run is shorter than 65536: the buffers here hold 16000 bytes).          *)

\* The elements of a finite set of integers in ascending order.
RECURSIVE SortedSeq(_)
SortedSeq(S) ==
    IF S = {} THEN <<>>
    ELSE LET m == CHOOSE x \in S : \A y \in S : x <= y
         IN  <<m>> \o SortedSeq(S \ {m})

RunStarts(bytes) ==
    {k \in 1..Len(bytes) : k = 1 \/ bytes[k] # bytes[k - 1]}

Gzip(bytes) ==
    LET st == SortedSeq(RunStarts(bytes))
        n == Len(st)
        runLen(i) == (IF i < n THEN st[i + 1] ELSE Len(bytes) + 1) - st[i]
    IN  [k \in 1..(3 * n + 2) |->
            IF k = 1 THEN 31
            ELSE IF k = 2 THEN 139
            ELSE LET i == ((k - 3) \div 3) + 1
                     f == (k - 3) % 3
                 IN  IF f = 0 THEN bytes[st[i]]
                     ELSE IF f = 1 THEN runLen(i) \div 256
                     ELSE runLen(i) % 256] \o <<>>

\* The length of the i-th run of a compressed buffer z.
GzRunLen(z, i) == 256 * z[3 * i + 1] + z[3 * i + 2]

\* The number of bytes the first i runs of z expand to.
RECURSIVE GzPrefix(_, _)
GzPrefix(z, i) == IF i = 0 THEN 0 ELSE GzPrefix(z, i - 1) + GzRunLen(z, i)

\* pako.ungzip: [ok |-> FALSE] is its exception.
Ungzip(z) ==
    IF Len(z) < 2 \/ (Len(z) - 2) % 3 # 0 THEN [ok |-> FALSE, bytes |-> <<>>]
    ELSE IF z[1] # 31 \/ z[2] # 139 THEN [ok |-> FALSE, bytes |-> <<>>]
    ELSE LET n == (Len(z) - 2) \div 3
             ends == [i \in 1..n |-> GzPrefix(z, i)] \o <<>>
             start(r) == IF r = 1 THEN 0 ELSE ends[r - 1]
         IN  [ok |-> TRUE,
              bytes |-> [k \in 1..(IF n = 0 THEN 0 ELSE ends[n]) |->
                            LET i == CHOOSE r \in 1..n :
                                        start(r) < k /\ k <= ends[r]
                            IN  z[3 * i]] \o <<>>]

---------------------------------------------------------------------------
(* RevocationList.                                                         *)

SIZE == 2000
SIZE_PER_INDEX == 64

\* new RevocationList(): SIZE zeroed 64-bit words.
NewRevocationList == [w \in 0..(SIZE - 1) |-> {}]

\* JavaScript's %: the remainder has the sign of the dividend.
JsRem(a, b) == IF a >= 0 THEN a % b ELSE -((-a) % b)

\* getBitArrayValues: defined is FALSE when bitArray[arrayIndex] is undefined
\* (an index outside the typed array); BigInt(1) << BigInt(b) is 0n for b < 0.
getBitArrayValues(bitArray, index) ==
    LET arrayIndex == SIZE - 1 - (index \div SIZE_PER_INDEX)
        bitIndex == JsRem(index, SIZE_PER_INDEX)
    IN  [arrayIndex |-> arrayIndex,
         defined |-> arrayIndex \in DOMAIN bitArray,
         arrayValue |-> IF arrayIndex \in DOMAIN bitArray
                        THEN bitArray[arrayIndex] ELSE {},
         mask |-> IF bitIndex >= 0 THEN {bitIndex} ELSE {}]

\* getCredentialStatus: "TypeError" is undefined & BigInt.
getCredentialStatus(bitArray, index) ==
    LET bits == getBitArrayValues(bitArray, index)
    IN  IF ~bits.defined THEN "TypeError"
        ELSE IF (bits.arrayValue \cap bits.mask) = bits.mask THEN "true"
        ELSE "false"

\* (a variant that stores the mask in place of arrayValue | mask)
revokeCredentialStoresMask(bitArray, index) ==
    IF index > SIZE * SIZE_PER_INDEX \/ index < 0
    THEN [err |-> "IndexOutOfRange", bitArray |-> bitArray]
    ELSE LET bits == getBitArrayValues(bitArray, index)
         IN  IF ~bits.defined THEN [err |-> "TypeError", bitArray |-> bitArray]
             ELSE [err |-> "none",
                   bitArray |-> [bitArray EXCEPT ![bits.arrayIndex] = bits.mask]]

\* revokeCredential: the list after the call and how the call ended
\* ("TypeError" is undefined | BigInt; a store keeps 64 bits).
revokeCredential(bitArray, index) ==
    IF index > SIZE * SIZE_PER_INDEX
    THEN [err |-> "IndexOutOfRange", bitArray |-> bitArray]
    ELSE IF index < 0
    THEN [err |-> "IndexOutOfRange", bitArray |-> bitArray]
    ELSE LET bits == getBitArrayValues(bitArray, index)
             newArrayValue == bits.arrayValue \cup bits.mask
         IN  IF ~bits.defined THEN [err |-> "TypeError", bitArray |-> bitArray]
             ELSE [err |-> "none",
                   bitArray |-> [bitArray EXCEPT ![bits.arrayIndex] =
                                    newArrayValue \cap (0..63)]]

\* input.bitArray.buffer: the words' bytes in the host's byte order.
BufferOf(bitArray, littleEndian) ==
    LET n == Cardinality(DOMAIN bitArray)
    IN  [k \in 1..(8 * n) |->
            LET word == bitArray[(k - 1) \div 8]
                p == (k - 1) % 8
                q == IF littleEndian THEN p ELSE 7 - p
            IN  IF word = {} THEN 0
                ELSE ByteVal({b \in 0..7 : (8 * q + b) \in word})] \o <<>>

\* (a variant that reads the words as signed 63-bit values)
WordsOfSigned(bytes, littleEndian) ==
    [w \in 0..((Len(bytes) \div 8) - 1) |->
        UNION {{8 * (IF littleEndian THEN p ELSE 7 - p) + b :
                    b \in {c \in 0..7 :
                             ByteBit(bytes[8 * w + p + 1], c) = 1}} :
               p \in 0..7} \ {63}]

\* new BigUint64Array(buffer), for a buffer of a multiple of 8 bytes: byte p
\* of a word holds its bits 8q..8q+7, q = p on a little-endian host.
WordsOf(bytes, littleEndian) ==
    [w \in 0..((Len(bytes) \div 8) - 1) |->
        UNION {IF bytes[8 * w + p + 1] = 0 THEN {}
               ELSE {8 * (IF littleEndian THEN p ELSE 7 - p) + b :
                        b \in {c \in 0..7 :
                                 ByteBit(bytes[8 * w + p + 1], c) = 1}} :
               p \in 0..7}]

\* RevocationList.stringify: gzip of the buffer, then btoa of its bytes.
stringify(bitArray, littleEndian) ==
    Base64Encode(Gzip(BufferOf(bitArray, littleEndian)), FALSE)

\* (a variant that reads the buffer in the other byte order)
parseOtherOrder(input, littleEndian) ==
    LET originalText == Ungzip(Base64Decode(input))
    IN  IF ~originalText.ok THEN [err |-> "ungzip", bitArray |-> <<>>]
        ELSE IF Len(originalText.bytes) % 8 # 0
        THEN [err |-> "RangeError", bitArray |-> <<>>]
        ELSE [err |-> "none",
              bitArray |-> WordsOf(originalText.bytes, ~littleEndian)]

\* RevocationList.parse: "ungzip" is pako's exception, "RangeError" the
\* BigUint64Array constructor's for a buffer that is no multiple of 8 bytes.
parse(input, littleEndian) ==
    LET originalText == Ungzip(Base64Decode(input))
    IN  IF ~originalText.ok THEN [err |-> "ungzip", bitArray |-> <<>>]
        ELSE IF Len(originalText.bytes) % 8 # 0
        THEN [err |-> "RangeError", bitArray |-> <<>>]
        ELSE [err |-> "none",
              bitArray |-> WordsOf(originalText.bytes, littleEndian)]

---------------------------------------------------------------------------
(* Selective disclosure: selective-disclosure.ts.                          *)
(* A JSON value is [t |-> its kind, v |-> its text]: the characters of a   *)
(* string, the JSON text of anything else.                                 *)

SALT_BYTE_SIZE == 16

Str(text) == [t |-> "string", v |-> text]
Num(text) == [t |-> "number", v |-> text]
Bool(text) == [t |-> "boolean", v |-> text]
Null == [t |-> "null", v |-> <<110, 117, 108, 108>>]
EmptyObject == [t |-> "object", v |-> <<123, 125>>]
EmptyArray == [t |-> "array", v |-> <<91, 93>>]

\* JavaScript's typeof.
typeof(value) ==
    IF value.t \in {"string", "number", "boolean"} THEN value.t ELSE "object"

\* The characters of a string as JSON.stringify writes them between the
\* quotes: a quote and a backslash are escaped (the strings of the model
\* hold no control characters).
RECURSIVE JsonEscape(_)
JsonEscape(text) ==
    IF text = <<>> THEN <<>>
    ELSE (IF Head(text) \in {34, 92} THEN <<92, Head(text)>>
          ELSE <<Head(text)>>) \o JsonEscape(Tail(text))

\* JSON.stringify of one value.
JsonValue(value) ==
    IF value.t = "string" THEN <<34>> \o JsonEscape(value.v) \o <<34>>
    ELSE value.v

\* JSON.stringify of an array: [v1,v2,...] without whitespace.
RECURSIVE JsonItems(_)
JsonItems(array) ==
    IF array = <<>> THEN <<>>
    ELSE IF Len(array) = 1 THEN JsonValue(array[1])
    ELSE JsonValue(array[1]) \o <<44>> \o JsonItems(Tail(array))

JSONstringify(array) == <<91>> \o JsonItems(array) \o <<93>>

\* (a variant that encodes the array's elements without the brackets)
encodeDisclosureItems(disclosureArray) ==
    Base64Encode(JsonItems(disclosureArray), TRUE)

\* encodeDisclosure
encodeDisclosure(disclosureArray) ==
    Base64Encode(JSONstringify(disclosureArray), TRUE)

\* String.prototype.replace('-', ''): the first hyphen only.
RemoveFirstHyphen(text) ==
    LET hyphens == {k \in 1..Len(text) : text[k] = 45}
    IN  IF hyphens = {} THEN text
        ELSE LET first == CHOOSE k \in hyphens : \A j \in hyphens : k <= j
             IN  SubSeq(text, 1, first - 1) \o SubSeq(text, first + 1, Len(text))

\* String.prototype.toLowerCase on ASCII.
toLowerCase(text) ==
    [k \in 1..Len(text) |->
        IF text[k] >= 65 /\ text[k] <= 90 THEN text[k] + 32 ELSE text[k]]
    \o <<>>

ES256K == <<69, 83, 50, 53, 54, 75>>
EdDSA == <<69, 100, 68, 83, 65>>
PS256 == <<80, 83, 50, 53, 54>>
sha256 == <<115, 104, 97, 50, 53, 54>>
sha512 == <<115, 104, 97, 53, 49, 50>>

\* ianaToCryptoAlg
ianaToCryptoAlg(hashAlg) ==
    IF hashAlg = ES256K THEN sha256
    ELSE IF hashAlg = EdDSA THEN sha512
    ELSE toLowerCase(RemoveFirstHyphen(hashAlg))

\* The digest names crypto.createHash knows here (OpenSSL's SHA-1 and SHA-2).
SupportedHashes ==
    {sha256, sha512, <<115, 104, 97, 51, 56, 52>>, <<115, 104, 97, 50, 50, 52>>, <<115, 104, 97, 49>>}

\* crypto.createHash(name).update(text).digest().  The platform's hash is
\* modelled by a 16-bit checksum: the characters of the digest's name and of
\* the text, each weighted by its position, summed modulo 65536 and written
\* as two bytes; it has the collisions a hash of this size has.
RECURSIVE WeightedSum(_, _, _)
WeightedSum(text, lo, hi) ==
    IF lo > hi THEN 0
    ELSE IF lo = hi THEN (text[lo] * (2 * lo + 1)) % 65536
    ELSE (WeightedSum(text, lo, (lo + hi) \div 2)
          + WeightedSum(text, ((lo + hi) \div 2) + 1, hi)) % 65536

Digest(name, text) ==
    LET h == (251 * WeightedSum(name, 1, Len(name))
              + WeightedSum(text, 1, Len(text))) % 65536
    IN  <<h \div 256, h % 256>>

\* hashDisclosure: err is "UnsupportedAlg" when crypto.createHash throws.
hashDisclosure(alg, disclosure) ==
    LET name == ianaToCryptoAlg(alg)
    IN  IF name \notin SupportedHashes
        THEN [err |-> "UnsupportedAlg", text |-> <<>>]
        ELSE [err |-> "none",
              text |-> Base64Encode(Digest(name, disclosure), TRUE)]

\* a < b in the order of Array.prototype.sort without a comparator: by code
\* unit, a proper prefix first.
RECURSIVE TextLess(_, _)
TextLess(a, b) ==
    IF b = <<>> THEN FALSE
    ELSE IF a = <<>> THEN TRUE
    ELSE IF Head(a) # Head(b) THEN Head(a) < Head(b)
    ELSE TextLess(Tail(a), Tail(b))

\* One text put into a sorted sequence, after the texts equal to it.
RECURSIVE InsertSorted(_, _)
InsertSorted(text, sorted) ==
    IF sorted = <<>> THEN <<text>>
    ELSE IF TextLess(text, Head(sorted)) THEN <<text>> \o sorted
    ELSE <<Head(sorted)>> \o InsertSorted(text, Tail(sorted))

\* (a variant that leaves the array as it is)
sortNot(array) == array

\* Array.prototype.sort()
RECURSIVE sort(_)
sort(array) ==
    IF array = <<>> THEN <<>>
    ELSE InsertSorted(array[Len(array)], sort(SubSeq(array, 1, Len(array) - 1)))

\* (a variant that deletes only the first key)
removeFirstKeyFromObject(obj, keysToRemove) ==
    IF keysToRemove = <<>> THEN obj
    ELSE [k \in DOMAIN obj \ {keysToRemove[1]} |-> obj[k]]

\* removeKeysFromObject: delete obj[key] for each key.
removeKeysFromObject(obj, keysToRemove) ==
    [k \in DOMAIN obj \ {keysToRemove[i] : i \in DOMAIN keysToRemove} |->
        obj[k]]

\* Object.keys(claimValues) and Object.values(claimValues): claimValues is
\* the sequence of its <<name, value>> entries in insertion order.
Keys(claimValues) == [i \in DOMAIN claimValues |-> claimValues[i][1]]
Values(claimValues) == [i \in DOMAIN claimValues |-> claimValues[i][2]]

\* (a variant that digests the disclosure's JSON text, not its encoding)
digestOfJson(hashAlg, disclosureArray) ==
    hashDisclosure(hashAlg, JSONstringify(disclosureArray))

\* The digest createDisclosures commits to for one disclosure array.
digestOf(hashAlg, disclosureArray) ==
    hashDisclosure(hashAlg, encodeDisclosure(disclosureArray))

\* The loop of createDisclosures from claim i on: err names the exception
\* that ends it ("NotYetImplemented" for a value whose typeof is object).
RECURSIVE DisclosureLoop(_, _, _, _, _)
DisclosureLoop(hashAlg, claimValues, salts, i, acc) ==
    IF i > Len(claimValues) THEN acc
    ELSE IF typeof(Values(claimValues)[i]) = "object"
    THEN [acc EXCEPT !.err = "NotYetImplemented"]
    ELSE LET disclosureArray ==
                 <<Str(Base64Encode(salts[i], TRUE)),
                   Str(Keys(claimValues)[i]), Values(claimValues)[i]>>
             disclosure == encodeDisclosure(disclosureArray)
             disclosureDigest == digestOf(hashAlg, disclosureArray)
         IN  IF disclosureDigest.err # "none"
             THEN [acc EXCEPT !.err = disclosureDigest.err]
             ELSE DisclosureLoop(hashAlg, claimValues, salts, i + 1,
                     [err |-> "none",
                      _disclosures |-> Append(acc._disclosures, disclosure),
                      sdDigests |-> Append(acc.sdDigests,
                                           disclosureDigest.text)])

\* createDisclosures(hashAlg, claimValues, target), with the salts that
\* crypto.randomBytes draws: the subject as the call leaves it, the
\* disclosures it returns, and err, the exception that ended it ("TypeError"
\* is Object.defineProperty's on a subject that has a non-configurable _sd).
createDisclosures(hashAlg, claimValues, subject, salts) ==
    LET loop == DisclosureLoop(hashAlg, claimValues, salts, 1,
                    [err |-> "none", _disclosures |-> <<>>,
                     sdDigests |-> <<>>])
        removed == [subject EXCEPT !.claims =
                       removeKeysFromObject(@, Keys(claimValues))]
    IN  IF loop.err # "none"
        THEN [err |-> loop.err, target |-> subject, _disclosures |-> <<>>]
        ELSE IF subject.hasSd
        THEN [err |-> "TypeError", target |-> removed, _disclosures |-> <<>>]
        ELSE [err |-> "none",
              target |-> [removed EXCEPT !.hasSd = TRUE,
                                         !._sd = sort(loop.sdDigests)],
              _disclosures |-> loop._disclosures]

---------------------------------------------------------------------------
(* JSON.parse, parseDisclosure, discloseClaims.  The JSON texts of the     *)
(* model hold no whitespace between tokens.                                *)

IsDigit(c) == c >= 48 /\ c <= 57

IsHex(c) == IsDigit(c) \/ (c >= 65 /\ c <= 70) \/ (c >= 97 /\ c <= 102)

HexVal(c) == IF IsDigit(c) THEN c - 48 ELSE IF c >= 97 THEN c - 87 ELSE c - 55

\* JavaScript's undefined.
Undefined == [t |-> "undefined", v |-> <<>>]

\* What a failed parse returns.
BadJson == [ok |-> FALSE, value |-> Undefined, items |-> <<>>, next |-> 0]

\* The character an escape letter stands for, 0 when it is no escape.
EscapeOf(e) ==
    IF e \in {34, 92, 47} THEN e
    ELSE IF e = 98 THEN 8
    ELSE IF e = 102 THEN 12
    ELSE IF e = 110 THEN 10
    ELSE IF e = 114 THEN 13
    ELSE IF e = 116 THEN 9
    ELSE 0

\* A string literal read from index j, just after its opening quote, with
\* the characters read so far: escapes are resolved, a raw control
\* character or an unknown escape is a syntax error.
RECURSIVE ScanString(_, _, _)
ScanString(text, j, acc) ==
    IF j > Len(text) THEN BadJson
    ELSE IF text[j] = 34
    THEN [ok |-> TRUE, value |-> [t |-> "string", v |-> acc],
          items |-> <<>>, next |-> j + 1]
    ELSE IF text[j] < 32 THEN BadJson
    ELSE IF text[j] # 92 THEN ScanString(text, j + 1, Append(acc, text[j]))
    ELSE IF j + 1 > Len(text) THEN BadJson
    ELSE IF EscapeOf(text[j + 1]) # 0
    THEN ScanString(text, j + 2, Append(acc, EscapeOf(text[j + 1])))
    ELSE IF /\ text[j + 1] = 117
            /\ j + 5 <= Len(text)
            /\ \A k \in (j + 2)..(j + 5) : IsHex(text[k])
    THEN ScanString(text, j + 6,
            Append(acc, 4096 * HexVal(text[j + 2]) + 256 * HexVal(text[j + 3])
                        + 16 * HexVal(text[j + 4]) + HexVal(text[j + 5])))
    ELSE BadJson

\* The first index from k on that holds no digit (Len(text) + 1 at the end).
DigitsEnd(text, k) ==
    CHOOSE m \in k..(Len(text) + 1) :
        /\ m = Len(text) + 1 \/ ~IsDigit(text[m])
        /\ \A n \in k..(m - 1) : IsDigit(text[n])

\* A number literal at index i: -? (0 | [1-9][0-9]*) (. [0-9]+)? ([eE] [+-]?
\* [0-9]+)?; its value is written as its text.
ScanNumber(text, i) ==
    LET s == IF text[i] = 45 THEN i + 1 ELSE i
        intEnd == IF s <= Len(text) /\ text[s] = 48 THEN s + 1
                  ELSE DigitsEnd(text, s)
        fracEnd == IF intEnd <= Len(text) /\ text[intEnd] = 46
                   THEN DigitsEnd(text, intEnd + 1) ELSE intEnd
        fracOk == fracEnd = intEnd \/ fracEnd > intEnd + 1
        expAt == IF fracEnd <= Len(text) /\ text[fracEnd] \in {69, 101}
                 THEN (IF fracEnd + 1 <= Len(text)
                          /\ text[fracEnd + 1] \in {43, 45}
                       THEN fracEnd + 2 ELSE fracEnd + 1)
                 ELSE 0
        expEnd == IF expAt = 0 THEN fracEnd ELSE DigitsEnd(text, expAt)
        expOk == expAt = 0 \/ expEnd > expAt
    IN  IF intEnd = s \/ ~fracOk \/ ~expOk THEN BadJson
        ELSE [ok |-> TRUE,
              value |-> [t |-> "number", v |-> SubSeq(text, i, expEnd - 1)],
              items |-> <<>>, next |-> expEnd]

\* One of the literals true, false and null at index i.
ScanLiteral(text, i, word, kind) ==
    IF SubSeq(text, i, i + Len(word) - 1) = word
    THEN [ok |-> TRUE, value |-> [t |-> kind, v |-> word], items |-> <<>>,
          next |-> i + Len(word)]
    ELSE BadJson

\* The JSON parser at index i.  In mode "value" it reads one value and
\* returns it, the index after it and, for an array, its elements, for an
\* object, its <<key, value>> members; in mode "items" it reads the elements
\* of an array from the start of one, in mode "members" the members of an
\* object from the start of a key, acc holding those read so far.
RECURSIVE Parse(_, _, _, _)
Parse(mode, text, i, acc) ==
    IF mode = "value"
    THEN IF i > Len(text) THEN BadJson
         ELSE IF text[i] = 34 THEN ScanString(text, i + 1, <<>>)
         ELSE IF text[i] = 45 \/ IsDigit(text[i]) THEN ScanNumber(text, i)
         ELSE IF text[i] = 116
         THEN ScanLiteral(text, i, <<116, 114, 117, 101>>, "boolean")
         ELSE IF text[i] = 102
         THEN ScanLiteral(text, i, <<102, 97, 108, 115, 101>>, "boolean")
         ELSE IF text[i] = 110
         THEN ScanLiteral(text, i, <<110, 117, 108, 108>>, "null")
         ELSE IF text[i] \in {91, 123}
         THEN LET close == IF text[i] = 91 THEN 93 ELSE 125
                  kind == IF text[i] = 91 THEN "array" ELSE "object"
                  r == IF i + 1 <= Len(text) /\ text[i + 1] = close
                       THEN [ok |-> TRUE, items |-> <<>>, next |-> i + 2]
                       ELSE Parse(IF text[i] = 91 THEN "items" ELSE "members",
                                  text, i + 1, <<>>)
              IN  IF ~r.ok THEN BadJson
                  ELSE [ok |-> TRUE,
                        value |-> [t |-> kind,
                                   v |-> SubSeq(text, i, r.next - 1)],
                        items |-> r.items, next |-> r.next]
         ELSE BadJson
    ELSE LET k == IF mode = "items" THEN BadJson
                  ELSE IF i <= Len(text) /\ text[i] = 34
                  THEN ScanString(text, i + 1, <<>>) ELSE BadJson
             e == IF mode = "items" THEN Parse("value", text, i, <<>>)
                  ELSE IF k.ok /\ k.next <= Len(text) /\ text[k.next] = 58
                  THEN Parse("value", text, k.next + 1, <<>>) ELSE BadJson
             item == IF mode = "items" THEN e.value ELSE <<k.value.v, e.value>>
             close == IF mode = "items" THEN 93 ELSE 125
         IN  IF ~e.ok \/ e.next > Len(text) THEN BadJson
             ELSE IF text[e.next] = 44
             THEN Parse(mode, text, e.next + 1, Append(acc, item))
             ELSE IF text[e.next] = close
             THEN [ok |-> TRUE, value |-> Undefined,
                   items |-> Append(acc, item), next |-> e.next + 1]
             ELSE BadJson

\* A parse that ends where the text of n characters ends, or a SyntaxError.
WholeText(r, n) == IF r.ok /\ r.next = n + 1 THEN r ELSE BadJson

\* JSON.parse(text): the whole text is one value, or a SyntaxError (~ok).
JSONparse(text) == WholeText(Parse("value", text, 1, <<>>), Len(text))

\* The value of the member of a parsed object with the given key (the last
\* one when the key is repeated), Undefined when it has none.
MemberOf(members, key) ==
    LET at == {k \in DOMAIN members : members[k][1] = key}
    IN  IF at = {} THEN Undefined
        ELSE members[CHOOSE k \in at : \A j \in at : j <= k][2]

\* The decimal text of a natural number.
RECURSIVE Decimal(_)
Decimal(n) ==
    IF n < 10 THEN <<48 + n>> ELSE Decimal(n \div 10) \o <<48 + (n % 10)>>

\* parsed.length: the number of elements of an array, of characters of a
\* string, the member "length" of an object, undefined otherwise.
lengthOf(r) ==
    IF r.value.t = "array" THEN [t |-> "number", v |-> Decimal(Len(r.items))]
    ELSE IF r.value.t = "string"
    THEN [t |-> "number", v |-> Decimal(Len(r.value.v))]
    ELSE IF r.value.t = "object"
    THEN MemberOf(r.items, <<108, 101, 110, 103, 116, 104>>)
    ELSE Undefined

\* x != 3 for a value x of the model: a number or a string not written 3,
\* or a value of another kind.
NotEqual3(x) ==
    IF x.t \in {"number", "string"} THEN x.v # <<51>> ELSE TRUE

\* parsed[k] (k from 0): an element of an array, a character of a string,
\* the member named k of an object.
ElementOf(r, k) ==
    IF r.value.t = "array"
    THEN (IF k + 1 <= Len(r.items) THEN r.items[k + 1] ELSE Undefined)
    ELSE IF r.value.t = "string"
    THEN (IF k + 1 <= Len(r.value.v)
          THEN [t |-> "string", v |-> <<r.value.v[k + 1]>>] ELSE Undefined)
    ELSE IF r.value.t = "object" THEN MemberOf(r.items, Decimal(k))
    ELSE Undefined

\* parseDisclosure from the result r of JSON.parse on: the test of
\* parsed.length.  err names what is thrown: JSON.parse's SyntaxError, the
\* TypeError of null.length, or "can't parse disclosure".
lengthChecked(r) ==
    IF ~r.ok THEN [err |-> "SyntaxError", parsed |-> BadJson]
    ELSE IF r.value.t = "null" THEN [err |-> "TypeError", parsed |-> BadJson]
    ELSE IF NotEqual3(lengthOf(r))
    THEN [err |-> "CantParse", parsed |-> BadJson]
    ELSE [err |-> "none", parsed |-> r]

\* parseDisclosure: jose.base64url.decode (Buffer.from(.., 'base64') on
\* Node), the bytes read as text, JSON.parse, and the test of the length.
parseDisclosure(disclosure) ==
    lengthChecked(JSONparse(Base64Decode(disclosure)))

\* The indices of DisclosureArray.
SALT == 0
NAME == 1
VALUE == 2

\* String.prototype.split(sep) for a one-character separator.
split(text, sep) ==
    LET at == {k \in 1..Len(text) : text[k] = sep}
        cuts == <<0>> \o SortedSeq(at) \o <<Len(text) + 1>>
    IN  [k \in 1..(Len(cuts) - 1) |->
            SubSeq(text, cuts[k] + 1, cuts[k + 1] - 1)] \o <<>>

\* Array.prototype.join(sep) for a one-character separator.
RECURSIVE join(_, _)
join(texts, sep) ==
    IF texts = <<>> THEN <<>>
    ELSE IF Len(texts) = 1 THEN texts[1]
    ELSE texts[1] \o <<sep>> \o join(Tail(texts), sep)

\* claims.includes(x): x is one of the strings of claims.
includes(claims, x) ==
    x.t = "string" /\ \E k \in DOMAIN claims : claims[k] = x.v

\* discloseClaims from the split text and the parsed disclosures on: the
\* filter on element `field` of each, and the text put together again.
filterAndJoin(parts, parsedOf, claims, field) ==
    LET JWS == parts[1]
        disclosures == Tail(parts)
        thrown == {k \in DOMAIN disclosures : parsedOf[k].err # "none"}
        kept == SortedSeq({k \in DOMAIN disclosures :
                    includes(claims, ElementOf(parsedOf[k].parsed, field))})
        filtered == [i \in 1..Len(kept) |-> disclosures[kept[i]]] \o <<>>
    IN  IF Len(parts) <= 1 THEN [err |-> "NoDisclosures", text |-> <<>>]
        ELSE IF thrown # {}
        THEN [err |-> parsedOf[CHOOSE k \in thrown : \A j \in thrown : k <= j].err,
              text |-> <<>>]
        ELSE [err |-> "none", text |-> JWS \o <<126>> \o join(filtered, 126)]

\* The disclosures of the split text, each parsed.
parsedDisclosures(parts) ==
    [k \in 1..(Len(parts) - 1) |-> parseDisclosure(parts[k + 1])] \o <<>>

\* (a variant that filters on the disclosures' values)
discloseClaimsByValue(sdJwt, claims) ==
    filterAndJoin(split(sdJwt, 126), parsedDisclosures(split(sdJwt, 126)),
                  claims, VALUE)

\* discloseClaims(sdJwt, claims): the promise's value (text) or what it is
\* rejected with (err), the first exception of the filter callback.
discloseClaims(sdJwt, claims) ==
    filterAndJoin(split(sdJwt, 126), parsedDisclosures(split(sdJwt, 126)),
                  claims, NAME)

---------------------------------------------------------------------------
(* State.                                                                  *)

VARIABLES
    littleEndian, \* the host's byte order (that of its typed arrays)
    bitArray,     \* a RevocationList's bitArray
    rlCall,       \* the last operation on it: [op, index, err]
    rlBefore,     \* its bitArray before that operation
    rlOut,        \* what that operation returned (stringify's text)
    remote,       \* the status list credential the list server publishes
    pc,           \* per revoke flow: "idle", "get", "post" or "done"
    vcOf,         \* per flow: the vc revokeCredentialSL21 was called with
    returned,     \* per flow: what revokeCredentialSL21 returned
    result,       \* per flow: what the promise _result settled to
    fetched,      \* per flow: response.data of its GET
    posted,       \* per flow: the data of its POST
    failed,       \* per flow: the step that threw or was rejected
    gets,         \* per flow: GET requests issued
    posts,        \* per flow: POST requests issued
    target,       \* the credentialSubject of a decoded VC payload (target.vc)
    sdCall,       \* the last selective-disclosure call: arguments, outcome
    sdBefore      \* target before that call

rlVars == <<bitArray, rlCall, rlBefore, rlOut>>

flowVars ==
    <<remote, pc, vcOf, returned, result, fetched, posted, failed, gets, posts>>

sdVars == <<target, sdCall, sdBefore>>

vars == <<littleEndian, rlVars, flowVars, sdVars>>

\* The revoke flows of the model.
Flows == 1..NumFlows

\* No list has been constructed (the other specifications' initial state).
NoList ==
    /\ bitArray = <<>>
    /\ rlCall = [op |-> "none", index |-> 0, err |-> "none"]
    /\ rlBefore = <<>>
    /\ rlOut = <<>>

\* A vc: a JWT string, or an object whose credentialStatus (when it has one)
\* has a type and the id `${listUrl}#${credId}`.
NoVC == [isString |-> FALSE, hasStatus |-> FALSE, type |-> "", credId |-> 0]

\* A credential that is not there (no response, no request).
NoCredential ==
    [issuer |-> "", type |-> <<>>,
     credentialSubject |->
        [id |-> "", type |-> "", purpose |-> "", encodedList |-> <<>>]]

\* No flow has been started (the other specifications' initial state).
NoFlows ==
    /\ remote = NoCredential
    /\ pc = [f \in Flows |-> "idle"]
    /\ vcOf = [f \in Flows |-> NoVC]
    /\ returned = [f \in Flows |-> "none"]
    /\ result = [f \in Flows |-> "none"]
    /\ fetched = [f \in Flows |-> NoCredential]
    /\ posted = [f \in Flows |-> NoCredential]
    /\ failed = [f \in Flows |-> "none"]
    /\ gets = [f \in Flows |-> 0]
    /\ posts = [f \in Flows |-> 0]

\* A credentialSubject: its claims (a function of the claim names), and
\* its _sd property, which Object.defineProperty makes non-configurable.
NoSubject == [claims |-> <<>>, hasSd |-> FALSE, _sd |-> <<>>]

NoCall ==
    [op |-> "none", hashAlg |-> <<>>, claimValues |-> <<>>, err |-> "none",
     disclosures |-> <<>>]

\* No payload has been decoded (the other specifications' initial state).
NoPayload ==
    /\ target = NoSubject
    /\ sdCall = NoCall
    /\ sdBefore = NoSubject

---------------------------------------------------------------------------
(* The RevocationList specification: one list, revoked, serialised and     *)
(* read back.                                                              *)

\* The indices the calls are made with: the two ends of the last word and
\* one index inside it, the last index of the range (the top bit of word 0),
\* and the integers around the two ends of the range.
RLIndices ==
    {-1, 0, 42, 63, SIZE * SIZE_PER_INDEX - 1,
     SIZE * SIZE_PER_INDEX, SIZE * SIZE_PER_INDEX + 1}

InRange(i) == 0 <= i /\ i < SIZE * SIZE_PER_INDEX

NumRevoked(bits) ==
    Cardinality({i \in RLIndices :
                    InRange(i) /\ getCredentialStatus(bits, i) = "true"})

RLInit ==
    /\ littleEndian \in BOOLEAN
    /\ bitArray = NewRevocationList
    /\ rlCall = [op |-> "new", index |-> 0, err |-> "none"]
    /\ rlBefore = NewRevocationList
    /\ rlOut = <<>>
    /\ NoFlows
    /\ NoPayload

\* list.revokeCredential(index)
RLRevoke(index) ==
    /\ \/ ~InRange(index)
       \/ getCredentialStatus(bitArray, index) = "true"
       \/ NumRevoked(bitArray) < MaxRevoked
    /\ LET r == revokeCredential(bitArray, index)
       IN  /\ bitArray' = r.bitArray
           /\ rlCall' = [op |-> "revoke", index |-> index, err |-> r.err]
    /\ rlBefore' = bitArray
    /\ rlOut' = <<>>
    /\ UNCHANGED <<littleEndian, flowVars, sdVars>>

\* RevocationList.stringify(list)
RLStringify ==
    /\ rlOut' = stringify(bitArray, littleEndian)
    /\ rlCall' = [op |-> "stringify", index |-> 0, err |-> "none"]
    /\ rlBefore' = bitArray
    /\ UNCHANGED <<bitArray, littleEndian, flowVars, sdVars>>

\* list = RevocationList.parse(RevocationList.stringify(list))
RLRoundTrip ==
    /\ LET r == parse(stringify(bitArray, littleEndian), littleEndian)
       IN  /\ bitArray' = IF r.err = "none" THEN r.bitArray ELSE bitArray
           /\ rlCall' = [op |-> "roundtrip", index |-> 0, err |-> r.err]
    /\ rlBefore' = bitArray
    /\ rlOut' = <<>>
    /\ UNCHANGED <<littleEndian, flowVars, sdVars>>

RLNext ==
    \/ \E index \in RLIndices : RLRevoke(index)
    \/ RLStringify
    \/ RLRoundTrip

RLSpec == RLInit /\ [][RLNext]_vars

---------------------------------------------------------------------------
(* Claims about the RevocationList (checked under RLSpec).                 *)

Capacity == SIZE * SIZE_PER_INDEX

AfterRevoke(i) == rlCall.op = "revoke" /\ rlCall.index = i

\* C1: after revokeCredential(i) with i in [0, 128000), getCredentialStatus(i)
\* is true and getCredentialStatus(j) of every other j in [0, 128000) is what
\* it was before the call; the one bit that can change is bit i mod 64 of
\* word 1999 - floor(i / 64).
C1_RevokeSetsExactlyOneBit ==
    (rlCall.op = "revoke" /\ 0 <= rlCall.index /\ rlCall.index < 128000) =>
        LET i == rlCall.index
        IN  /\ getCredentialStatus(bitArray, i) = "true"
            /\ \A j \in 0..(128000 - 1) :
                  j # i => getCredentialStatus(bitArray, j)
                              = getCredentialStatus(rlBefore, j)
            /\ DOMAIN bitArray = DOMAIN rlBefore
            /\ \A w \in DOMAIN bitArray :
                  bitArray[w] = IF w = 1999 - (i \div 64)
                                THEN rlBefore[w] \cup {i % 64}
                                ELSE rlBefore[w]

\* C1's case: index 63 is revoked in a word that had bit 0 set and bit 63
\* clear.
C1_Witness ==
    /\ AfterRevoke(63)
    /\ rlCall.err = "none"
    /\ getCredentialStatus(rlBefore, 63) = "false"
    /\ getCredentialStatus(rlBefore, 0) = "true"
    /\ getCredentialStatus(bitArray, 63) = "true"

\* C2: revokeCredential(i) fails with the index-out-of-range error for every
\* integer i outside [0, 128000), 128000 included, leaving the bitmap as it
\* was, and does not fail for i inside the range.
C2_OutOfRangeIsRejected ==
    rlCall.op = "revoke" =>
        IF 0 <= rlCall.index /\ rlCall.index < 128000
        THEN rlCall.err = "none"
        ELSE rlCall.err = "IndexOutOfRange" /\ bitArray = rlBefore

\* C3: no operation (revokeCredential, stringify, parse of stringify) turns
\* a bit from 1 to 0, and revoking an index that is already revoked leaves
\* the whole bitmap as it was.
C3_Monotonic ==
    /\ \A j \in 0..(Capacity - 1) :
          getCredentialStatus(rlBefore, j) = "true"
              => getCredentialStatus(bitArray, j) = "true"
    /\ (rlCall.op = "revoke"
            /\ getCredentialStatus(rlBefore, rlCall.index) = "true")
          => bitArray = rlBefore

\* C3's case: a list with bits 0 and 127999 set is read back from its own
\* text.
C3_Witness ==
    /\ rlCall.op = "roundtrip"
    /\ getCredentialStatus(rlBefore, Capacity - 1) = "true"
    /\ getCredentialStatus(rlBefore, 0) = "true"
    /\ getCredentialStatus(bitArray, Capacity - 1) = "true"
    /\ getCredentialStatus(bitArray, 0) = "true"

\* C4: parse(stringify(L)) has L's bitmap word for word: 2000 words, every
\* getCredentialStatus(i) the same.
C4_RoundTrip ==
    rlCall.op = "roundtrip" =>
        /\ rlCall.err = "none"
        /\ DOMAIN bitArray = 0..(2000 - 1)
        /\ \A w \in 0..(2000 - 1) : bitArray[w] = rlBefore[w]
        /\ \A i \in 0..(128000 - 1) :
              getCredentialStatus(bitArray, i)
                  = getCredentialStatus(rlBefore, i)

\* C4's case: the specification's example, revoke(42) and a round trip, on a
\* list that also has the top bit of a word set.
C4_Witness ==
    /\ rlCall.op = "roundtrip"
    /\ rlCall.err = "none"
    /\ getCredentialStatus(rlBefore, 42) = "true"
    /\ getCredentialStatus(rlBefore, 63) = "true"
    /\ getCredentialStatus(bitArray, 42) = "true"
    /\ getCredentialStatus(bitArray, 41) = "false"
    /\ getCredentialStatus(bitArray, 43) = "false"

---------------------------------------------------------------------------
(* The revoke flow: revokeCredentialSL21 and the promise chain it starts.  *)
(* The list server is the environment: a GET answers with the credential   *)
(* it publishes at that moment or fails, a POST replaces that credential   *)
(* and succeeds, or fails and leaves it.  The then-callback awaits parse   *)
(* and stringify, which touch only the flow's own list; it is one step     *)
(* up to the POST it sends.                                                *)

IssuerDID == "did:key:issuer"
SubjectDID == "did:key:subject"
ListId == "https://issuer.example/status/1"

\* createCredential: {id: subjectDID, ...credentialSubject}, so an id of
\* credentialSubject replaces subjectDID (issuanceDate is left out).
createCredential(issuerDID, subjectDID, credentialSubject, credentialType) ==
    [issuer |-> issuerDID,
     type |-> <<"VerifiableCredential">> \o credentialType,
     credentialSubject |-> credentialSubject @@ [id |-> subjectDID]]

\* (a variant that sets the bit in a new list, not in the fetched one)
ThenCallbackNewList(credentialList, credId, byteOrder) ==
    LET list == parse(credentialList.credentialSubject.encodedList, byteOrder)
        revoked == revokeCredential(NewRevocationList, credId)
        credentialSubject ==
            [id |-> credentialList.credentialSubject.id,
             type |-> credentialList.credentialSubject.type,
             purpose |-> credentialList.credentialSubject.purpose,
             encodedList |-> stringify(revoked.bitArray, byteOrder)]
    IN  IF list.err # "none" THEN [failed |-> "parse", data |-> NoCredential]
        ELSE IF revoked.err # "none"
        THEN [failed |-> "revoke", data |-> NoCredential]
        ELSE [failed |-> "none",
              data |-> createCredential(IssuerDID, SubjectDID,
                          credentialSubject, <<"StatusList2021">>)]

\* The then-callback of revokeCredentialSL21 up to the POST request:
\* failed names the step that threw, data is the POST's body.
ThenCallback(credentialList, credId, byteOrder) ==
    LET list == parse(credentialList.credentialSubject.encodedList, byteOrder)
        revoked == revokeCredential(list.bitArray, credId)
        credentialSubject ==
            [id |-> credentialList.credentialSubject.id,
             type |-> credentialList.credentialSubject.type,
             purpose |-> credentialList.credentialSubject.purpose,
             encodedList |-> stringify(revoked.bitArray, byteOrder)]
    IN  IF list.err # "none" THEN [failed |-> "parse", data |-> NoCredential]
        ELSE IF revoked.err # "none"
        THEN [failed |-> "revoke", data |-> NoCredential]
        ELSE [failed |-> "none",
              data |-> createCredential(IssuerDID, SubjectDID,
                          credentialSubject, <<"StatusList2021">>)]

\* The credIds of the model: two bits of one word, and one past the range.
FlowIndices == {0, 63, SIZE * SIZE_PER_INDEX}

FlowVCs ==
    {[isString |-> TRUE, hasStatus |-> FALSE, type |-> "", credId |-> 0],
     [isString |-> FALSE, hasStatus |-> FALSE, type |-> "", credId |-> 0],
     [isString |-> FALSE, hasStatus |-> TRUE,
      type |-> "RevocationList2020Status", credId |-> 0]}
    \cup {[isString |-> FALSE, hasStatus |-> TRUE,
           type |-> "StatusList2021Entry", credId |-> i] : i \in FlowIndices}

\* What the server publishes at first: an empty list, or a credential whose
\* encodedList is no gzip text.  The host is little-endian (both byte
\* orders are covered by RLSpec).
FlowInit ==
    /\ littleEndian = TRUE
    /\ NoList
    /\ \E e \in {stringify(NewRevocationList, littleEndian), <<>>} :
          remote = createCredential(IssuerDID, SubjectDID,
                      [id |-> ListId, type |-> "StatusList2021",
                       purpose |-> "revocation", encodedList |-> e],
                      <<"StatusList2021">>)
    /\ pc = [f \in Flows |-> "idle"]
    /\ vcOf = [f \in Flows |-> NoVC]
    /\ returned = [f \in Flows |-> "none"]
    /\ result = [f \in Flows |-> "none"]
    /\ fetched = [f \in Flows |-> NoCredential]
    /\ posted = [f \in Flows |-> NoCredential]
    /\ failed = [f \in Flows |-> "none"]
    /\ gets = [f \in Flows |-> 0]
    /\ posts = [f \in Flows |-> 0]
    /\ NoPayload

\* (a variant that sends the GET whatever the status type is)
revokeCredentialSL21AnyType(f, vc) ==
    /\ pc[f] = "idle"
    /\ vcOf' = [vcOf EXCEPT ![f] = vc]
    /\ returned' = [returned EXCEPT ![f] = "false"]
    /\ IF ~vc.isString /\ vc.hasStatus
       THEN /\ pc' = [pc EXCEPT ![f] = "get"]
            /\ gets' = [gets EXCEPT ![f] = @ + 1]
            /\ result' = [result EXCEPT ![f] = "pending"]
       ELSE /\ pc' = [pc EXCEPT ![f] = "done"]
            /\ UNCHANGED <<gets, result>>
    /\ UNCHANGED <<remote, fetched, posted, failed, posts>>
    /\ UNCHANGED <<littleEndian, rlVars, sdVars>>

\* revokeCredentialSL21(vc, issuerDID, subjectDID): the synchronous call.
\* It sends the GET and returns false without awaiting the chain.
revokeCredentialSL21(f, vc) ==
    /\ pc[f] = "idle"
    /\ vcOf' = [vcOf EXCEPT ![f] = vc]
    /\ returned' = [returned EXCEPT ![f] = "false"]
    /\ IF ~vc.isString /\ vc.hasStatus /\ vc.type = "StatusList2021Entry"
       THEN /\ pc' = [pc EXCEPT ![f] = "get"]
            /\ gets' = [gets EXCEPT ![f] = @ + 1]
            /\ result' = [result EXCEPT ![f] = "pending"]
       ELSE /\ pc' = [pc EXCEPT ![f] = "done"]
            /\ UNCHANGED <<gets, result>>
    /\ UNCHANGED <<remote, fetched, posted, failed, posts>>
    /\ UNCHANGED <<littleEndian, rlVars, sdVars>>

\* (a variant in which the list is published as soon as it is built)
GetResponsePublishes(f) ==
    /\ pc[f] = "get"
    /\ fetched' = [fetched EXCEPT ![f] = remote]
    /\ \E r \in {ThenCallback(remote, vcOf[f].credId, littleEndian)} :
           IF r.failed = "none"
           THEN /\ pc' = [pc EXCEPT ![f] = "post"]
                /\ posted' = [posted EXCEPT ![f] = r.data]
                /\ posts' = [posts EXCEPT ![f] = @ + 1]
                /\ remote' = r.data
                /\ UNCHANGED <<result, failed>>
           ELSE /\ pc' = [pc EXCEPT ![f] = "done"]
                /\ result' = [result EXCEPT ![f] = "false"]
                /\ failed' = [failed EXCEPT ![f] = r.failed]
                /\ UNCHANGED <<remote, posted, posts>>
    /\ UNCHANGED <<vcOf, returned, gets>>
    /\ UNCHANGED <<littleEndian, rlVars, sdVars>>

\* The GET is answered: the then-callback runs and sends the POST, or
\* throws, which the catch handler turns into false.
GetResponse(f) ==
    /\ pc[f] = "get"
    /\ fetched' = [fetched EXCEPT ![f] = remote]
    /\ \E r \in {ThenCallback(remote, vcOf[f].credId, littleEndian)} :
           IF r.failed = "none"
           THEN /\ pc' = [pc EXCEPT ![f] = "post"]
                /\ posted' = [posted EXCEPT ![f] = r.data]
                /\ posts' = [posts EXCEPT ![f] = @ + 1]
                /\ UNCHANGED <<result, failed>>
           ELSE /\ pc' = [pc EXCEPT ![f] = "done"]
                /\ result' = [result EXCEPT ![f] = "false"]
                /\ failed' = [failed EXCEPT ![f] = r.failed]
                /\ UNCHANGED <<posted, posts>>
    /\ UNCHANGED <<remote, vcOf, returned, gets>>
    /\ UNCHANGED <<littleEndian, rlVars, sdVars>>

\* The GET is rejected: the catch handler returns false.
GetError(f) ==
    /\ pc[f] = "get"
    /\ pc' = [pc EXCEPT ![f] = "done"]
    /\ result' = [result EXCEPT ![f] = "false"]
    /\ failed' = [failed EXCEPT ![f] = "get"]
    /\ UNCHANGED <<remote, vcOf, returned, fetched, posted, gets, posts>>
    /\ UNCHANGED <<littleEndian, rlVars, sdVars>>

\* The POST is answered: the server publishes its body, the callback
\* returns true.
PostResponse(f) ==
    /\ pc[f] = "post"
    /\ remote' = posted[f]
    /\ pc' = [pc EXCEPT ![f] = "done"]
    /\ result' = [result EXCEPT ![f] = "true"]
    /\ UNCHANGED <<vcOf, returned, fetched, posted, failed, gets, posts>>
    /\ UNCHANGED <<littleEndian, rlVars, sdVars>>

\* The POST is rejected: the catch handler returns false.
PostError(f) ==
    /\ pc[f] = "post"
    /\ pc' = [pc EXCEPT ![f] = "done"]
    /\ result' = [result EXCEPT ![f] = "false"]
    /\ failed' = [failed EXCEPT ![f] = "post"]
    /\ UNCHANGED <<remote, vcOf, returned, fetched, posted, gets, posts>>
    /\ UNCHANGED <<littleEndian, rlVars, sdVars>>

FlowNext ==
    \E f \in Flows :
        \/ \E vc \in FlowVCs : revokeCredentialSL21(f, vc)
        \/ GetResponse(f)
        \/ GetError(f)
        \/ PostResponse(f)
        \/ PostError(f)

FlowSpec == FlowInit /\ [][FlowNext]_vars

---------------------------------------------------------------------------
(* Claims about the revoke flow (checked under FlowSpec).                  *)

\* The bits of a published credential's list, read on this host.
ListOf(credential) ==
    parse(credential.credentialSubject.encodedList, littleEndian).bitArray

\* C5: revokeCredentialSL21 returns true to its caller when the GET, the bit
\* set and the POST all succeed, and false, without throwing, when the GET,
\* the parse, the revoke or the POST fails.
C5_ReturnsTheOutcome ==
    \A f \in Flows :
        (pc[f] = "done" /\ result[f] # "none") =>
            returned[f] = IF failed[f] = "none" THEN "true" ELSE "false"

\* C6: the published list changes only through a POST that succeeds: a step
\* in which a flow fails (GET rejected, parse or revokeCredential throwing,
\* POST rejected) leaves it as it was, and every change of it is the answer
\* to some flow's POST, publishing that POST's body.
C6_OnlyASuccessfulPostPublishes ==
    [][/\ (\E f \in Flows : failed'[f] # failed[f]) => remote' = remote
       /\ remote' # remote =>
             \E f \in Flows :
                 /\ pc[f] = "post"
                 /\ pc'[f] = "done"
                 /\ result'[f] = "true"
                 /\ failed'[f] = "none"
                 /\ remote' = posted[f]]_vars

\* C6's case: a flow's POST was rejected; the list it fetched is still the
\* published one and has the flow's bit clear, while the list it had built
\* has the bit set.
C6_Witness ==
    \E f \in Flows :
        /\ failed[f] = "post"
        /\ remote = fetched[f]
        /\ getCredentialStatus(ListOf(posted[f]), vcOf[f].credId) = "true"
        /\ getCredentialStatus(ListOf(remote), vcOf[f].credId) = "false"

\* The flow's POST is answered in this step.
Completes(f) == pc[f] = "post" /\ pc'[f] = "done" /\ result'[f] = "true"

\* C18: when a revoke flow for index credId completes its POST, the list it
\* publishes is the list it fetched with exactly bit credId set in addition
\* (every other bit as fetched), and the published credentialSubject has the
\* fetched id, type and purpose.
C18_PublishesFetchedPlusOneBit ==
    [][\A f \in Flows :
          Completes(f) =>
              \A i \in {vcOf[f].credId}, before \in {ListOf(fetched[f])},
                 after \in {ListOf(remote')} :
                  /\ DOMAIN after = DOMAIN before
                  /\ \A w \in DOMAIN after :
                        after[w] = IF w = SIZE - 1 - (i \div SIZE_PER_INDEX)
                                   THEN before[w] \cup {i % SIZE_PER_INDEX}
                                   ELSE before[w]
                  /\ remote'.credentialSubject.id
                        = fetched[f].credentialSubject.id
                  /\ remote'.credentialSubject.type
                        = fetched[f].credentialSubject.type
                  /\ remote'.credentialSubject.purpose
                        = fetched[f].credentialSubject.purpose]_vars

\* C18's case: the flow for index 63 has completed its POST; the list it
\* fetched had bit 0 set and bit 63 clear, the published list has both and
\* the id of the list, not the subject DID the flow was called with.
C18_Witness ==
    \E f \in Flows :
        /\ result[f] = "true"
        /\ vcOf[f].credId = 63
        /\ remote = posted[f]
        /\ remote.credentialSubject.id = ListId
        /\ getCredentialStatus(ListOf(fetched[f]), 0) = "true"
        /\ getCredentialStatus(ListOf(fetched[f]), 63) = "false"
        /\ getCredentialStatus(ListOf(remote), 0) = "true"
        /\ getCredentialStatus(ListOf(remote), 63) = "true"

\* C19: under any interleaving of revoke flows against the same list the
\* published list stays monotonic: once flows for distinct indices a and b
\* have both completed successfully, bits a and b are both set in the
\* published list.
C19_NoLostUpdate ==
    \A f, g \in Flows :
        (/\ f # g
         /\ result[f] = "true"
         /\ result[g] = "true"
         /\ vcOf[f].credId # vcOf[g].credId) =>
            /\ getCredentialStatus(ListOf(remote), vcOf[f].credId) = "true"
            /\ getCredentialStatus(ListOf(remote), vcOf[g].credId) = "true"

\* The credential is an object whose status type is StatusList2021Entry.
IsStatusList2021Entry(vc) ==
    ~vc.isString /\ vc.hasStatus /\ vc.type = "StatusList2021Entry"

\* C20: a flow sends its POST at most once, and only when the credential is
\* an object of status type StatusList2021Entry, the GET has been answered
\* and revokeCredential(credId) on the fetched list has succeeded; for any
\* other status type the function returns false and sends no GET and no POST.
C20_PostOnceAfterTheThreeSteps ==
    /\ [](\A f \in Flows :
            /\ posts[f] <= 1
            /\ posts[f] = 1 =>
                  /\ IsStatusList2021Entry(vcOf[f])
                  /\ gets[f] = 1
                  /\ failed[f] \notin {"get", "parse", "revoke"}
            /\ (pc[f] # "idle" /\ ~IsStatusList2021Entry(vcOf[f])) =>
                  /\ returned[f] = "false"
                  /\ gets[f] = 0
                  /\ posts[f] = 0)
    /\ [][\A f \in Flows :
            posts'[f] # posts[f] =>
                /\ pc[f] = "get"
                /\ fetched'[f] = remote
                /\ \A list \in {parse(remote.credentialSubject.encodedList,
                                       littleEndian)} :
                      /\ list.err = "none"
                      /\ revokeCredential(list.bitArray,
                                          vcOf[f].credId).err = "none"]_vars

\* C20's cases: one flow has sent its POST after its three steps; another,
\* called with a RevocationList2020Status credential, has returned false
\* and sent nothing.
C20_Witness ==
    \E f, g \in Flows :
        /\ posts[f] = 1
        /\ gets[f] = 1
        /\ IsStatusList2021Entry(vcOf[f])
        /\ pc[g] = "done"
        /\ vcOf[g].type = "RevocationList2020Status"
        /\ returned[g] = "false"
        /\ gets[g] = 0
        /\ posts[g] = 0

---------------------------------------------------------------------------
(* The selective-disclosure specification: a VC payload is decoded and     *)
(* createDisclosures is called on it, once or again.                       *)

fname == <<102, 110, 97, 109, 101>>
sname == <<115, 110, 97, 109, 101>>
nationalId == <<110, 97, 116, 105, 111, 110, 97, 108, 73, 100>>
id == <<105, 100>>

\* The credentialSubject createCredential builds from the test's subject
\* data: {id: subjectDID, fname: 'John', sname: 'Doe', nationalId: ...}.
DecodedSubject ==
    [claims |-> (id :> Str(<<100, 105, 100, 58, 107, 101, 121, 58, 104, 111, 108, 100, 101, 114>>)) @@ (fname :> Str(<<74, 111, 104, 110>>))
                @@ (sname :> Str(<<68, 111, 101>>)) @@ (nationalId :> Str(<<97, 106, 106, 51, 105, 50, 51, 50, 57, 51, 102, 50, 57, 48>>)),
     hasSd |-> FALSE,
     _sd |-> <<>>]

\* The arguments of the calls: the hash algorithm of the test and one
\* crypto.createHash does not know; for fname a string, null or an object,
\* for sname a number, a boolean or an array.
HashAlgs == {ES256K, PS256}

ClaimValueChoices(name) ==
    IF name = fname
    THEN {Str(<<74, 111, 104, 110>>), Null, EmptyObject}
    ELSE {Num(<<55>>), Bool(<<116, 114, 117, 101>>), EmptyArray}

ClaimValuesChoices ==
    {cv \in UNION {[1..n -> UNION {{n1} \X ClaimValueChoices(n1) :
                                      n1 \in {fname, sname}}] :
                      n \in 0..MaxClaims} :
        \A i, j \in DOMAIN cv : i # j => cv[i][1] # cv[j][1]}

\* What crypto.randomBytes(SALT_BYTE_SIZE) returns.
Salts ==
    {[k \in 1..SALT_BYTE_SIZE |-> (83 * s + 29 * k) % 256] : s \in 1..NumSalts}

SDInit ==
    /\ littleEndian = TRUE
    /\ NoList
    /\ NoFlows
    /\ target = DecodedSubject
    /\ sdCall = [NoCall EXCEPT !.op = "decode"]
    /\ sdBefore = DecodedSubject

\* jwtService.decodeJWT(credential).payload: a new target.
DecodePayload ==
    /\ sdCall.op # "decode"
    /\ target' = DecodedSubject
    /\ sdCall' = [NoCall EXCEPT !.op = "decode"]
    /\ sdBefore' = DecodedSubject
    /\ UNCHANGED <<littleEndian, rlVars, flowVars>>

\* createDisclosures(hashAlg, claimValues, target), on the payload just
\* decoded or on the target a call has returned; a call that throws ends
\* its caller, and the next call is on a newly decoded payload.
CreateDisclosures(hashAlg, claimValues) ==
    /\ sdCall.err = "none"
    /\ \E salts \in [DOMAIN claimValues -> Salts] :
          LET r == createDisclosures(hashAlg, claimValues, target, salts)
          IN  /\ target' = r.target
              /\ sdCall' = [op |-> "createDisclosures", hashAlg |-> hashAlg,
                            claimValues |-> claimValues, err |-> r.err,
                            disclosures |-> r._disclosures]
              /\ sdBefore' = target
              /\ UNCHANGED <<littleEndian, rlVars, flowVars>>

SDNext ==
    \/ DecodePayload
    \/ \E hashAlg \in HashAlgs, claimValues \in ClaimValuesChoices :
          CreateDisclosures(hashAlg, claimValues)

SDSpec == SDInit /\ [][SDNext]_vars

---------------------------------------------------------------------------
(* Properties of the createDisclosures specification (SDSpec).             *)

\* The last step was a call of createDisclosures that returned.
Issued == sdCall.op = "createDisclosures" /\ sdCall.err = "none"

\* The names the last call hides.
Hidden == {sdCall.claimValues[k][1] : k \in DOMAIN sdCall.claimValues}

\* C7: for every output of createDisclosures, each returned disclosure D
\* has hashDisclosure(hashAlg, D) among the elements of credentialSubject._sd.
C7_EveryDisclosureIsCommitted ==
    Issued =>
        \A k \in DOMAIN sdCall.disclosures :
            LET h == hashDisclosure(sdCall.hashAlg, sdCall.disclosures[k])
            IN  /\ h.err = "none"
                /\ \E j \in DOMAIN target._sd : target._sd[j] = h.text

\* A call that returned two disclosures with different digests.
C7_Witness ==
    /\ Issued
    /\ Len(sdCall.disclosures) = 2
    /\ Len(target._sd) = 2
    /\ target._sd[1] # target._sd[2]

\* C8: after createDisclosures, _sd is sorted in ascending order, and its
\* length is the number of keys of claimValues and the number of returned
\* disclosures.
C8_SdIsSortedAndCounted ==
    Issued =>
        /\ \A i, j \in DOMAIN target._sd :
              i < j => ~TextLess(target._sd[j], target._sd[i])
        /\ Len(target._sd) = Len(sdCall.claimValues)
        /\ Len(target._sd) = Len(sdCall.disclosures)

\* A call that hid two claims, the digest of the first disclosure the
\* greater one: _sd begins with the digest of the second.
C8_Witness ==
    /\ Issued
    /\ Len(sdCall.claimValues) = 2
    /\ target._sd[1] = hashDisclosure(sdCall.hashAlg, sdCall.disclosures[2]).text
    /\ TextLess(target._sd[1], target._sd[2])

\* C9: after a successful call that hides the names H, no name of H is a key
\* of credentialSubject, and every key it had that is not in H is still
\* there with the value it had.
C9_HiddenRemovedOthersKept ==
    Issued =>
        /\ \A name \in Hidden : name \notin DOMAIN target.claims
        /\ \A key \in (DOMAIN sdBefore.claims) \ Hidden :
              /\ key \in DOMAIN target.claims
              /\ target.claims[key] = sdBefore.claims[key]

\* fname and sname hidden, nationalId and id retained.
C9_Witness ==
    /\ Issued
    /\ Hidden = {fname, sname}
    /\ Hidden \subseteq DOMAIN sdBefore.claims
    /\ DOMAIN target.claims = {nationalId, id}
    /\ target.claims[nationalId] = DecodedSubject.claims[nationalId]

\* C10: a call of createDisclosures (on a payload without _sd, with the
\* hash algorithm of the test) fails if and only if some hidden value is an
\* object or an array; when every hidden value is a string, a number, a
\* boolean or null it succeeds and returns one disclosure per claim.
C10_FailsIffNonPrimitive ==
    (sdCall.op = "createDisclosures" /\ ~sdBefore.hasSd
        /\ sdCall.hashAlg = ES256K) =>
        LET nonPrimitive ==
                \E k \in DOMAIN sdCall.claimValues :
                    sdCall.claimValues[k][2].t \in {"object", "array"}
        IN  /\ (sdCall.err # "none") <=> nonPrimitive
            /\ ~nonPrimitive =>
                  Len(sdCall.disclosures) = Len(sdCall.claimValues)

\* C16: whenever createDisclosures throws (a nested value, an unsupported
\* hash algorithm, or a failure while adding _sd, such as a second call on a
\* target that already carries _sd), the target is exactly as it was before
\* the call: no claim removed from credentialSubject, _sd unchanged.
C16_ThrowLeavesTargetUnchanged ==
    (sdCall.op = "createDisclosures" /\ sdCall.err # "none") =>
        target = sdBefore

---------------------------------------------------------------------------
(* The disclosure codec specification: calls of encodeDisclosure,          *)
(* parseDisclosure, ianaToCryptoAlg and discloseClaims, each on arguments  *)
(* drawn from the sets below; sdCall holds the last call and what it       *)
(* returned.                                                               *)

\* Claim names: the test's, and one with a quote and a backslash.
quoted == <<97, 34, 98, 92>>
CodecNames == {fname, sname, quoted}

\* Primitive claim values.
CodecValues ==
    {Str(<<74, 111, 104, 110>>), Str(<<34, 68, 111, 101, 34>>), Str(<<>>),
     Num(<<55>>), Num(<<45, 49, 46, 53>>), Bool(<<116, 114, 117, 101>>),
     Bool(<<102, 97, 108, 115, 101>>), Null}

\* base64url salts.
CodecSalts == {Base64Encode(s, TRUE) : s \in Salts}

\* JSON texts handed to parseDisclosure (base64url-encoded), with the kind
\* of value each is and, for an array, its number of elements.
JsonTexts ==
    {[n |-> 0, kind |-> "array", json |-> <<91, 93>>],
     [n |-> 2, kind |-> "array", json |-> <<91, 34, 97, 34, 44, 34, 98, 34, 93>>],
     [n |-> 3, kind |-> "array",
      json |-> <<91, 34, 97, 34, 44, 34, 98, 34, 44, 49, 93>>],
     [n |-> 4, kind |-> "array", json |-> <<91, 49, 44, 50, 44, 51, 44, 52, 93>>],
     [n |-> 0, kind |-> "string", json |-> <<34, 97, 98, 99, 34>>],
     [n |-> 0, kind |-> "string", json |-> <<34, 97, 98, 34>>],
     [n |-> 0, kind |-> "number", json |-> <<55>>],
     [n |-> 0, kind |-> "boolean", json |-> <<116, 114, 117, 101>>],
     [n |-> 0, kind |-> "object", json |-> <<123, 125>>],
     [n |-> 0, kind |-> "object",
      json |-> <<123, 34, 108, 101, 110, 103, 116, 104, 34, 58, 51, 125>>],
     [n |-> 0, kind |-> "object",
      json |-> <<123, 34, 97, 34, 58, 91, 49, 44, 50, 44, 51, 93, 125>>]}

\* Algorithm names handed to ianaToCryptoAlg: ES256K, EdDSA, PS256, SHA-256,
\* sha-384, SHA256, sha1, SHA3-256, SHA-512-256.
SHA_256 == <<83, 72, 65, 45, 50, 53, 54>>
sha_384 == <<115, 104, 97, 45, 51, 56, 52>>
SHA_512_256 == <<83, 72, 65, 45, 53, 49, 50, 45, 50, 53, 54>>
AlgNames ==
    {ES256K, EdDSA, PS256, SHA_256, sha_384, <<83, 72, 65, 50, 53, 54>>,
     <<115, 104, 97, 49>>, <<83, 72, 65, 51, 45, 50, 53, 54>>, SHA_512_256}

\* The compact JWS of an SD-JWT (its characters are of no concern here:
\* base64url and dots).
CodecJWS == <<104, 46, 112, 46, 115>>

\* The disclosures an SD-JWT is made of: one per claim of the test.
CodecDisclosures ==
    {encodeDisclosure(<<Str(CHOOSE s \in CodecSalts : TRUE), Str(fname),
                        Str(<<74, 111, 104, 110>>)>>),
     encodeDisclosure(<<Str(CHOOSE s \in CodecSalts : TRUE), Str(sname),
                        Str(<<68, 111, 101>>)>>),
     encodeDisclosure(<<Str(CHOOSE s \in CodecSalts : TRUE), Str(nationalId),
                        Num(<<55>>)>>)}

\* The SD-JWTs handed to discloseClaims: the JWS and up to MaxDisclosures
\* different disclosures, each after a '~'; also the bare JWS, the JWS
\* with a trailing '~', and one with a disclosure of two elements.
SdJwts ==
    {CodecJWS \o <<126>> \o join(ds, 126) :
        ds \in {d \in UNION {[1..n -> CodecDisclosures] : n \in 0..MaxDisclosures} :
                  \A i, j \in DOMAIN d : i # j => d[i] # d[j]}}
    \cup {CodecJWS,
          CodecJWS \o <<126>>
              \o Base64Encode(<<91, 34, 97, 34, 44, 34, 98, 34, 93>>, TRUE)}

\* The claims arrays handed to discloseClaims.
ClaimsChoices ==
    {<<>>, <<fname>>, <<sname>>, <<sname, fname>>, <<nationalId, fname>>,
     <<id>>}

CodecInit ==
    /\ littleEndian = TRUE
    /\ NoList
    /\ NoFlows
    /\ NoPayload

\* parseDisclosure(encodeDisclosure(disclosureArray))
EncodeAndParse(disclosureArray) ==
    /\ sdCall' = [op |-> "encodeAndParse", disclosureArray |-> disclosureArray,
                  out |-> parseDisclosure(encodeDisclosure(disclosureArray))]
    /\ UNCHANGED <<target, sdBefore, littleEndian, rlVars, flowVars>>

\* parseDisclosure(disclosure) on the encoding of some JSON text
ParseDisclosure(input) ==
    /\ sdCall' = [op |-> "parseDisclosure", input |-> input,
                  out |-> parseDisclosure(Base64Encode(input.json, TRUE))]
    /\ UNCHANGED <<target, sdBefore, littleEndian, rlVars, flowVars>>

\* ianaToCryptoAlg(hashAlg)
IanaToCryptoAlg(hashAlg) ==
    /\ sdCall' = [op |-> "ianaToCryptoAlg", hashAlg |-> hashAlg,
                  out |-> ianaToCryptoAlg(hashAlg)]
    /\ UNCHANGED <<target, sdBefore, littleEndian, rlVars, flowVars>>

\* discloseClaims(sdJwt, claims), up to the settling of its promise
DiscloseClaims(sdJwt, claims) ==
    /\ sdCall' = [op |-> "discloseClaims", sdJwt |-> sdJwt, claims |-> claims,
                  out |-> discloseClaims(sdJwt, claims)]
    /\ UNCHANGED <<target, sdBefore, littleEndian, rlVars, flowVars>>

CodecNext ==
    \/ \E salt \in CodecSalts, name \in CodecNames, value \in CodecValues :
          EncodeAndParse(<<Str(salt), Str(name), value>>)
    \/ \E input \in JsonTexts : ParseDisclosure(input)
    \/ \E hashAlg \in AlgNames : IanaToCryptoAlg(hashAlg)
    \/ \E sdJwt \in SdJwts, claims \in ClaimsChoices :
          DiscloseClaims(sdJwt, claims)

CodecSpec == CodecInit /\ [][CodecNext]_vars

---------------------------------------------------------------------------
(* Properties of the disclosure codec specification (CodecSpec).           *)

\* C11: parseDisclosure(encodeDisclosure([salt, name, value])) returns
\* exactly [salt, name, value], for every base64url salt, claim name and
\* primitive value.
C11_ParseInvertsEncode ==
    sdCall.op = "encodeAndParse" =>
        /\ sdCall.out.err = "none"
        /\ sdCall.out.parsed.value.t = "array"
        /\ sdCall.out.parsed.items = sdCall.disclosureArray

\* A disclosure whose name holds a quote and a backslash and whose value is
\* no string has been encoded and parsed.
C11_Witness ==
    /\ sdCall.op = "encodeAndParse"
    /\ sdCall.disclosureArray[2].v = quoted
    /\ sdCall.disclosureArray[3] = Num(<<45, 49, 46, 53>>)
    /\ sdCall.out.err = "none"

\* The JWS of an SD-JWT and its disclosures.
JwsOf(sdJwt) == split(sdJwt, 126)[1]
DisclosuresOf(sdJwt) == Tail(split(sdJwt, 126))

\* The name a disclosure parses to is one of claims.
NameIn(disclosure, claims) ==
    LET p == parseDisclosure(disclosure)
    IN  /\ p.err = "none"
        /\ \E k \in DOMAIN claims :
              ElementOf(p.parsed, NAME) = [t |-> "string", v |-> claims[k]]

\* The texts of a sequence that are not empty.
NonEmpty(texts) ==
    LET test(d) == d # <<>> IN SelectSeq(texts, test)

\* C12: discloseClaims(sdJwt, claims) returns the JWS unchanged, followed by
\* exactly the disclosures of the input whose parsed name is in claims,
\* each unchanged and in their order in the input.
C12_KeepsExactlyTheNamedDisclosures ==
    (sdCall.op = "discloseClaims" /\ sdCall.out.err = "none") =>
        LET named(d) == NameIn(d, sdCall.claims)
        IN  /\ JwsOf(sdCall.out.text) = JwsOf(sdCall.sdJwt)
            /\ NonEmpty(DisclosuresOf(sdCall.out.text))
                  = SelectSeq(DisclosuresOf(sdCall.sdJwt), named)

\* Of two disclosures the second one was named and is the one returned.
C12_Witness ==
    /\ sdCall.op = "discloseClaims"
    /\ sdCall.out.err = "none"
    /\ Len(DisclosuresOf(sdCall.sdJwt)) = 2
    /\ sdCall.claims = <<sname>>
    /\ NameIn(DisclosuresOf(sdCall.sdJwt)[2], sdCall.claims)
    /\ NonEmpty(DisclosuresOf(sdCall.out.text))
          = <<DisclosuresOf(sdCall.sdJwt)[2]>>

\* C13: when claims is empty, or names no disclosure of the input,
\* discloseClaims returns the bare JWS, with no '~' after it.
C13_NothingRevealedIsTheBareJws ==
    (/\ sdCall.op = "discloseClaims"
     /\ sdCall.out.err = "none"
     /\ \A k \in DOMAIN DisclosuresOf(sdCall.sdJwt) :
           ~NameIn(DisclosuresOf(sdCall.sdJwt)[k], sdCall.claims))
        => sdCall.out.text = JwsOf(sdCall.sdJwt)

\* A text without its hyphens.
WithoutHyphens(text) ==
    LET test(c) == c # 45 IN SelectSeq(text, test)

\* C14: ianaToCryptoAlg maps ES256K to sha256 and EdDSA to sha512, and any
\* other name to the name in lower case with all its hyphens removed: the
\* result holds no '-' and no upper-case letter.
C14_DigestNames ==
    sdCall.op = "ianaToCryptoAlg" =>
        IF sdCall.hashAlg = ES256K THEN sdCall.out = sha256
        ELSE IF sdCall.hashAlg = EdDSA THEN sdCall.out = sha512
        ELSE /\ sdCall.out = toLowerCase(WithoutHyphens(sdCall.hashAlg))
             /\ \A k \in DOMAIN sdCall.out :
                   sdCall.out[k] # 45 /\ ~(sdCall.out[k] >= 65 /\ sdCall.out[k] <= 90)

\* C17: parseDisclosure succeeds only on the encoding of a JSON array of
\* exactly three elements; every other JSON value (an array of another
\* length, a string, a number, an object) is rejected with the
\* "can't parse disclosure" error.
C17_OnlyTriplesParse ==
    sdCall.op = "parseDisclosure" =>
        IF sdCall.input.kind = "array" /\ sdCall.input.n = 3
        THEN sdCall.out.err = "none"
        ELSE sdCall.out.err = "CantParse"

---------------------------------------------------------------------------
(* Presentations of several SD-JWT credentials.  The holder's and the      *)
(* verifier's functions are the ones the tests import from                  *)
(* services/holder/presentation and services/verifier/verification; they   *)
(* are modelled from sections 4.3 to 4.5 of the specification, on top of   *)
(* createDisclosures, parseDisclosure and hashDisclosure.  A JWS is the    *)
(* payload it signs with the DID whose key signed it; an SD-JWT is its JWS *)
(* and the text that follows the first '~'.                                *)

HolderDID == "did:key:holder"

\* A compact JWS over payload, signed with the key of signer.
signJWT(signer, payload) == [signer |-> signer, payload |-> payload]

\* The signature is verified with the key the resolver gives for iss.
verifyJWT(jws) == jws.signer = jws.payload.iss

\* createAndSignCredentialSDJWT: the payload of createCredential with the
\* claims of claimValues hidden, _sd_alg set, signed by the issuer and
\* followed by the disclosures.
createAndSignCredentialSDJWT(hashAlg, claimValues, salts) ==
    LET hidden == createDisclosures(hashAlg, claimValues, DecodedSubject, salts)
    IN  [jws |-> signJWT(IssuerDID,
                    [iss |-> IssuerDID, _sd_alg |-> hashAlg,
                     credentialSubject |-> hidden.target]),
         tail |-> join(hidden._disclosures, 126)]

\* The claims the credentials of the model hide: fname and sname (the
\* credential of the tests), or sname alone.
HiddenClaims ==
    <<(<<<<fname, Str(<<74, 111, 104, 110>>)>>,
         <<sname, Str(<<68, 111, 101>>)>>>>),
      (<<<<sname, Str(<<68, 111, 101>>)>>>>)>>

Credentials ==
    [c \in DOMAIN HiddenClaims |->
        createAndSignCredentialSDJWT(ES256K, HiddenClaims[c],
            [k \in DOMAIN HiddenClaims[c] |-> CHOOSE s \in Salts : TRUE])]

\* The reveal sets of the model.
RevealSets ==
    {<<>>, <<fname>>, <<sname>>, <<fname, sname>>, <<nationalId>>,
     <<sname, nationalId>>}

\* The disclosures of a credential that the reveal set names, joined by '~'.
disclosedGroup(disclosures, parsedOf, claims) ==
    LET kept == SortedSeq({k \in DOMAIN disclosures :
                    /\ parsedOf[k].err = "none"
                    /\ includes(claims, ElementOf(parsedOf[k].parsed, NAME))})
    IN  join([i \in 1..Len(kept) |-> disclosures[kept[i]]] \o <<>>, 126)

\* The disclosures an SD-JWT carries after its JWS.
disclosuresAfter(tail) == NonEmpty(split(tail, 126))

\* Each of the texts parsed as a disclosure.
eachParsed(disclosures) ==
    [k \in DOMAIN disclosures |-> parseDisclosure(disclosures[k])] \o <<>>

\* createAndSignPresentationSDJWT(holder, credentials, claims): the VP over
\* the bare JWS of each credential, signed by the holder, then '~' and the
\* groups of revealed disclosures joined by '&'.
createAndSignPresentationSDJWT(holder, credentials, claims) ==
    [jws |-> signJWT(holder,
                [iss |-> holder,
                 verifiableCredential |->
                     [i \in DOMAIN credentials |-> credentials[i].jws] \o <<>>]),
     tail |-> join([i \in DOMAIN credentials |->
                       disclosedGroup(disclosuresAfter(credentials[i].tail),
                           eachParsed(disclosuresAfter(credentials[i].tail)),
                           claims[i])] \o <<>>, 38)]

\* The claims one group of disclosures reveals of one credential: each
\* disclosure's digest is looked up in _sd, then its triple is read.
disclosedClaims(vc, disclosures, parsedOf) ==
    LET digests == [k \in DOMAIN disclosures |->
                       hashDisclosure(vc.payload._sd_alg, disclosures[k])]
        _sd == vc.payload.credentialSubject._sd
    IN  IF ~verifyJWT(vc) THEN [err |-> "InvalidSignature", disclosed |-> <<>>]
        ELSE IF \E k \in DOMAIN disclosures :
                    \/ digests[k].err # "none"
                    \/ \A j \in DOMAIN _sd : _sd[j] # digests[k].text
        THEN [err |-> "DisclosureMismatch", disclosed |-> <<>>]
        ELSE IF \E k \in DOMAIN disclosures : parsedOf[k].err # "none"
        THEN [err |-> "MalformedDisclosure", disclosed |-> <<>>]
        ELSE [err |-> "none",
              disclosed |->
                  [name \in {ElementOf(parsedOf[k].parsed, NAME).v :
                                k \in DOMAIN disclosures} |->
                      LET last == CHOOSE k \in DOMAIN disclosures :
                              /\ ElementOf(parsedOf[k].parsed, NAME).v = name
                              /\ \A j \in DOMAIN disclosures :
                                    ElementOf(parsedOf[j].parsed, NAME).v = name
                                        => j <= k
                      IN  ElementOf(parsedOf[last].parsed, VALUE)]]

\* The groups of a presentation checked against its credentials.
verifiedGroups(vp, groups) ==
    LET each == [i \in DOMAIN groups |->
                    disclosedClaims(vp.payload.verifiableCredential[i],
                        disclosuresAfter(groups[i]),
                        eachParsed(disclosuresAfter(groups[i])))]
        thrown == {i \in DOMAIN groups : each[i].err # "none"}
    IN  IF thrown # {}
        THEN [err |-> each[CHOOSE i \in thrown : \A j \in thrown : i <= j].err,
              verified |-> FALSE, disclosed |-> <<>>]
        ELSE [err |-> "none", verified |-> TRUE,
              disclosed |-> [i \in DOMAIN groups |-> each[i].disclosed] \o <<>>]

\* verifyPresentationSDJWT(presentation, resolver)
verifyPresentationSDJWT(presentation) ==
    IF ~verifyJWT(presentation.jws)
    THEN [err |-> "InvalidSignature", verified |-> FALSE, disclosed |-> <<>>]
    ELSE IF Len(split(presentation.tail, 38))
                # Len(presentation.jws.payload.verifiableCredential)
    THEN [err |-> "GroupCountMismatch", verified |-> FALSE, disclosed |-> <<>>]
    ELSE verifiedGroups(presentation.jws, split(presentation.tail, 38))

VPInit ==
    /\ littleEndian = TRUE
    /\ NoList
    /\ NoFlows
    /\ NoPayload

\* The holder presents the credentials chosen, each with a reveal set (one
\* presentation is followed from its making to its verification).
CreateAndSignPresentation(chosen, claims) ==
    /\ sdCall = NoCall
    /\ sdCall' = [op |-> "createAndSignPresentationSDJWT",
                  chosen |-> chosen, claims |-> claims,
                  out |-> createAndSignPresentationSDJWT(HolderDID,
                              [i \in DOMAIN chosen |-> Credentials[chosen[i]]],
                              claims)]
    /\ UNCHANGED <<target, sdBefore, littleEndian, rlVars, flowVars>>

\* The verifier is given the presentation the holder made.
VerifyPresentation ==
    /\ sdCall.op = "createAndSignPresentationSDJWT"
    /\ sdCall' = [op |-> "verifyPresentationSDJWT",
                  chosen |-> sdCall.chosen, claims |-> sdCall.claims,
                  out |-> verifyPresentationSDJWT(sdCall.out)]
    /\ UNCHANGED <<target, sdBefore, littleEndian, rlVars, flowVars>>

VPNext ==
    \/ \E n \in 1..MaxCredentials :
          \E chosen \in [1..n -> DOMAIN Credentials],
             claims \in [1..n -> RevealSets] :
              CreateAndSignPresentation(chosen, claims)
    \/ VerifyPresentation

VPSpec == VPInit /\ [][VPNext]_vars

\* The names of the claims credential c hides, and the names of a reveal set.
Disclosable(c) == {HiddenClaims[c][k][1] : k \in DOMAIN HiddenClaims[c]}
Revealed(claims) == {claims[k] : k \in DOMAIN claims}

====
